---------------------------- MODULE Spec2Model ----------------------------
(***************************************************************************)
(* Interview Analysis Dashboard (src/app.py).                              *)
(*                                                                         *)
(* The Streamlit script is re-executed from top to bottom on every widget  *)
(* change.  One action of the model is one such execution: load_data,      *)
(* the sidebar selectors, the filters, the category averages of the radar  *)
(* chart and the video tab.                                                *)
(*                                                                         *)
(* Python values are tagged records; a Python str is a tuple of one-       *)
(* character strings, so that concatenation, split and sorted are          *)
(* computed and not assumed.                                               *)
(***************************************************************************)
EXTENDS Integers, Sequences, FiniteSets, TLC

VARIABLES
    files,              \* dataset -> the value json.load returns for its file
    loaded,             \* outcome of the last call of load_data
    selected_dataset,   \* st.sidebar.radio("Select Dataset")
    selected_candidate, \* st.sidebar.selectbox("Select Candidate")
    selected_question,  \* derived question (HKU) or selectbox("Select Question")
    candidate_names,    \* options of the candidate selector
    question_options,   \* options of the question selector (<<>>: not shown)
    df,                 \* the flat table with its fullName column
    df_filtered,        \* the filtered view
    avg_scores,         \* category -> average shown in the radar chart
    tab4,               \* what the video tab did
    status              \* "ok", or the exception that stopped the script

vars == <<files, loaded, selected_dataset, selected_candidate, selected_question,
          candidate_names, question_options, df, df_filtered, avg_scores, tab4,
          status>>

---------------------------------------------------------------------------
(* Bounds of the model.                                                    *)

MaxCandidates == 2
MaxVideos == 2

---------------------------------------------------------------------------
(* Python values.                                                          *)

None == [t |-> "null"]
Num(n) == [t |-> "num", n |-> n]
Str(s) == [t |-> "str", s |-> s]
List(l) == [t |-> "list", l |-> l]
Dict(d) == [t |-> "dict", d |-> d]

EmptyDict == Dict([k \in {} |-> None])

isdict(v) == v.t = "dict"
isstr(v) == v.t = "str"

\* dict.get(k, default)
get(d, k, default) == IF k \in DOMAIN d.d THEN d.d[k] ELSE default

\* Text used by the script and by the modelled documents.
All == <<"A", "l", "l">>
Space == <<" ">>
Backslash == "\\"
baker_mckenzie_video ==
    <<"b","a","k","e","r","_","m","c","k","e","n","z","i","e","_","v","i","d","e","o">>
VideoUrlPrefix == <<"V","i","d","e","o"," ","U","R","L",":"," ">>
FileNamePrefix ==
    <<"A","v","a","i","l","a","b","l","e"," ","v","i","d","e","o"," ",
      "f","i","l","e"," ","n","a","m","e",":"," ">>
NoneText == <<"N","o","n","e">>

Datasets == {"Baker McKenzie", "HKU"}

---------------------------------------------------------------------------
(* load_data                                                               *)

\* An exception leaves the function without a value; a return carries the
\* records handed to pd.DataFrame.
Raise(e) == [exc |-> e, records |-> <<>>]
Return(r) == [exc |-> "none", records |-> r]

\* the video tab before it has run
NoView == [shown |-> "none", source |-> None, info |-> None, exc |-> "none"]

RECURSIVE safe_get_keeps_value(_, _)
safe_get_keeps_value(d, keys) ==
    \* faulty variant: "return d" where the code has "return None"
    IF keys = <<>> THEN d
    ELSE IF isdict(d) THEN safe_get_keeps_value(get(d, Head(keys), None), Tail(keys))
    ELSE d

RECURSIVE safe_get(_, _)
safe_get(d, keys) ==
    IF keys = <<>> THEN d
    ELSE IF isdict(d) THEN safe_get(get(d, Head(keys), None), Tail(keys))
    ELSE None

\* column -> the key path handed to safe_get
metric_paths ==
    [attire_score |-> <<"visual", "attire", "score">>,
     background_score |-> <<"visual", "background", "score">>,
     video_quality_score |-> <<"visual", "videoQuality", "score">>,
     appearance_score |-> <<"visual", "appearance", "score">>,
     eye_contact_score |-> <<"visual", "eyeContact", "score">>,
     delivery_score |-> <<"audio", "delivery", "score">>,
     pronunciation_score |-> <<"audio", "pronunciation", "score">>,
     accent_score |-> <<"audio", "accent", "score">>,
     irrelevant_responses_score |-> <<"content", "irrelevantResponses", "score">>,
     filler_words_score |-> <<"content", "fillerWords", "score">>,
     pauses_score |-> <<"content", "pauses", "score">>,
     grammar_score |-> <<"content", "grammar", "score">>,
     structure_score |-> <<"content", "structure", "score">>,
     language_score |-> <<"irregularities", "language", "score">>,
     video_irregularities_score |-> <<"irregularities", "videoIrregularities", "score">>,
     ai_cheating_score |-> <<"irregularities", "aiCheating", "score">>]

MetricColumns == DOMAIN metric_paths

\* str.split(sep): the segments of s between the occurrences of sep
RECURSIVE split(_, _, _)
split(s, sep, cur) ==
    IF s = <<>> THEN <<cur>>
    ELSE IF Head(s) = sep THEN <<cur>> \o split(Tail(s), sep, <<>>)
    ELSE split(Tail(s), sep, Append(cur, Head(s)))

\* for x in v: the items the loop visits.  A dict yields its keys and a str
\* its characters, each a str; the loop body needs only their type.
SetToSeq(S) ==
    CHOOSE q \in [1..Cardinality(S) -> S] : \A a \in S : \E i \in DOMAIN q : q[i] = a

iterable(v) == v.t \in {"list", "dict", "str"}

iter(v) ==
    CASE v.t = "list" -> v.l
      [] v.t = "dict" -> LET ks == SetToSeq(DOMAIN v.d)
                         IN [i \in DOMAIN ks |-> Str(<<ks[i]>>)]
      [] v.t = "str" -> [i \in DOMAIN v.s |-> Str(<<v.s[i]>>)]

video_base_path(dataset) ==
    IF dataset = "Baker McKenzie" THEN Str(baker_mckenzie_video) ELSE None

\* lines 39-47: the videos of one candidate, or the exception of the lookup
videos_of(dataset, candidate) ==
    IF ~isdict(candidate) THEN Raise("AttributeError")
    ELSE IF dataset = "Baker McKenzie"
    THEN Return(get(candidate, "videos", List(<<>>)))
    ELSE LET localPath == get(candidate, "localPath", Str(<<>>))
         IN IF ~isstr(localPath) THEN Raise("AttributeError")
            ELSE LET parts == split(localPath.s, Backslash, <<>>)
                 IN Return(List(<<Dict(
                        [question |-> get(candidate, "question", None),
                         fileName |-> Str(parts[Len(parts)]),
                         presignedURL |-> get(candidate, "presignedURL", None),
                         analysis |-> get(candidate, "analysis", EmptyDict)])>>))

\* lines 50-79: the flat record of one (candidate, video) pair
record(dataset, candidate, video) ==
    LET analysis == get(video, "analysis", EmptyDict)
    IN [c \in {"firstName", "lastName", "email", "question", "fileName",
               "video_base_path", "presignedURL"} \cup MetricColumns |->
          CASE c \in {"firstName", "lastName", "email"} -> get(candidate, c, None)
            [] c \in {"question", "fileName", "presignedURL"} -> get(video, c, None)
            [] c = "video_base_path" -> video_base_path(dataset)
            [] OTHER -> safe_get(analysis, metric_paths[c])]

\* lines 49-80: the inner loop
RECURSIVE video_loop(_, _, _, _)
video_loop(dataset, candidate, videos, records) ==
    IF videos = <<>> THEN Return(records)
    ELSE IF ~isdict(Head(videos)) THEN Raise("AttributeError")
    ELSE video_loop(dataset, candidate, Tail(videos),
                    Append(records, record(dataset, candidate, Head(videos))))

\* lines 37-80: the outer loop
RECURSIVE candidate_loop(_, _, _)
candidate_loop(dataset, data, records) ==
    IF data = <<>> THEN Return(records)
    ELSE LET videos == videos_of(dataset, Head(data))
         IN IF videos.exc # "none" THEN videos
            ELSE IF ~iterable(videos.records) THEN Raise("TypeError")
            ELSE LET r == video_loop(dataset, Head(data), iter(videos.records), records)
                 IN IF r.exc # "none" THEN r
                    ELSE candidate_loop(dataset, Tail(data), r.records)

load_data(dataset, data) ==
    IF ~iterable(data) THEN Raise("TypeError")
    ELSE candidate_loop(dataset, iter(data), <<>>)

---------------------------------------------------------------------------
(* The documents the files may hold.                                       *)

Obj1(k1, v1) == Dict(k1 :> v1)
Score(v) == Obj1("score", v)

\* analysis values with numeric or null scores
an_full ==
    Dict(("visual" :> Dict(("attire" :> Score(Num(0))) @@ ("background" :> Score(Num(10)))))
         @@ ("audio" :> Dict("delivery" :> Score(Num(10)))))
an_part ==
    Dict(("visual" :> Dict("attire" :> Score(Num(0))))
         @@ ("content" :> Dict("grammar" :> Score(None))))

NumericAnalyses == {an_full, an_part, None, EmptyDict}

\* analysis values of every shape a JSON document can give them
AnalysisValues ==
    NumericAnalyses \cup
    {Num(3), Str(<<"x">>), List(<<>>),
     Obj1("visual", Num(5)),
     Obj1("visual", None),
     Obj1("visual", Obj1("attire", Str(<<"x">>))),
     Obj1("visual", Obj1("attire", List(<<>>))),
     Obj1("visual", Obj1("attire", EmptyDict)),
     Obj1("visual", Obj1("attire", Score(Str(<<"7">>)))),
     Obj1("visual", Obj1("attire", Score(Score(Num(7)))))}

Q1 == Str(<<"Q", "1">>)
Q2 == Str(<<"Q", "2">>)
PathDV == Str(<<"d", Backslash, "v">>)
Url == Str(<<"u">>)

Identity(first, last) ==
    ("firstName" :> first) @@ ("lastName" :> last) @@ ("email" :> Str(<<"e">>))

\* a video document of the Baker McKenzie file
Video(question, fileName, analysis) ==
    Dict(("question" :> question) @@ ("fileName" :> fileName) @@ ("analysis" :> analysis))

v1 == Video(Q1, Str(<<"f">>), an_full)
v2 == Video(Q2, None, an_part)
v3 == Dict("question" :> None)

SeqsUpTo(S, n) == UNION {[1..k -> S] : k \in 0..n}

\* a candidate document carrying the keys of both file shapes
Candidate(id, videos, analysis) ==
    Dict(id @@ ("videos" :> videos) @@ ("question" :> Q1) @@ ("localPath" :> PathDV)
         @@ ("presignedURL" :> Url) @@ ("analysis" :> analysis))

LoadCandidates ==
    {Candidate(Identity(Str(<<"A">>), Str(<<"B">>)), List(<<Video(Q1, Str(<<"f">>), an)>>), an) :
        an \in AnalysisValues}
    \cup {Candidate(Identity(Str(<<"C">>), None), List(vs), an_part) :
            vs \in SeqsUpTo({v1, v2}, MaxVideos)}
    \cup {EmptyDict,
          Dict(Identity(Str(<<"A">>), Str(<<"B">>)) @@ ("videos" :> None) @@ ("localPath" :> None)),
          Dict(Identity(Str(<<"A">>), Str(<<"B">>)) @@ ("videos" :> List(<<v1, Num(1)>>))
               @@ ("localPath" :> Num(1)))}

NotMappings == {None, Num(1), Str(<<"x">>), List(<<>>)}

\* what json.load may return
LoadDocuments ==
    {List(<<c>>) : c \in LoadCandidates \cup NotMappings}
    \cup {List(l) : l \in SeqsUpTo({EmptyDict, None,
                                    Candidate(Identity(Str(<<"C">>), None), List(<<v1, v2>>), an_full),
                                    Candidate(Identity(None, Str(<<"B">>)), List(<<v2>>), None),
                                    Dict(("videos" :> None) @@ ("localPath" :> None))},
                                   MaxCandidates)}
    \cup {None, Num(0), Str(<<>>), Str(<<"x">>), EmptyDict,
          Dict(Identity(Str(<<"A">>), Str(<<"B">>)))}

Pending == [exc |-> "pending", records |-> <<>>]
InitLoad ==
    /\ \E doc \in LoadDocuments : files = [d \in Datasets |-> doc]
    /\ loaded = Pending
    /\ selected_dataset = "Baker McKenzie"
    /\ selected_candidate = Str(All)
    /\ selected_question = Str(All)
    /\ candidate_names = <<>>
    /\ question_options = <<>>
    /\ df = <<>>
    /\ df_filtered = <<>>
    /\ avg_scores = <<>>
    /\ tab4 = NoView
    /\ status = "pending"

\* df = load_data(selected_dataset), lines 17-82 and 102
LoadData(dataset) ==
    /\ selected_dataset' = dataset
    /\ loaded' = load_data(dataset, files[dataset])
    /\ UNCHANGED <<files, selected_candidate, selected_question, candidate_names,
                   question_options, df, df_filtered, avg_scores, tab4, status>>

NextLoad == \E dataset \in Datasets : LoadData(dataset)

SpecLoad == InitLoad /\ [][NextLoad]_vars

---------------------------------------------------------------------------
(* The script after load_data: lines 102-252.                              *)

Unset == [t |-> "unset"]

\* Series.fillna('')
fillna(v) == IF v = None THEN Str(<<>>) ELSE v

\* line 104: firstName.fillna('') + ' ' + lastName.fillna('')
with_fullName(records) ==
    IF records = <<>> THEN Raise("KeyError")
    ELSE IF \E i \in DOMAIN records :
               ~isstr(fillna(records[i]["firstName"])) \/ ~isstr(fillna(records[i]["lastName"]))
    THEN Raise("TypeError")
    ELSE Return([i \in DOMAIN records |->
                   records[i] @@
                   ("fullName" :> Str(fillna(records[i]["firstName"]).s \o Space
                                      \o fillna(records[i]["lastName"]).s))])

column(table, c) == [i \in DOMAIN table |-> table[i][c]]

\* Series.unique(): the values in order of first appearance
RECURSIVE unique(_)
unique(values) ==
    IF values = <<>> THEN <<>>
    ELSE LET front == unique(SubSeq(values, 1, Len(values) - 1))
             last == values[Len(values)]
         IN IF \E i \in DOMAIN front : front[i] = last THEN front ELSE Append(front, last)

\* code points of the characters the documents use
ord(c) ==
    CASE c = " " -> 32 [] c = "1" -> 49 [] c = "2" -> 50 [] c = "7" -> 55
      [] c = "A" -> 65 [] c = "B" -> 66 [] c = "C" -> 67 [] c = "Q" -> 81
      [] c = "\\" -> 92 [] c = "d" -> 100 [] c = "e" -> 101 [] c = "f" -> 102
      [] c = "l" -> 108 [] c = "u" -> 117 [] c = "v" -> 118 [] c = "x" -> 120

\* str < str
RECURSIVE lt(_, _)
lt(a, b) ==
    IF b = <<>> THEN FALSE
    ELSE IF a = <<>> THEN TRUE
    ELSE IF Head(a) = Head(b) THEN lt(Tail(a), Tail(b))
    ELSE ord(Head(a)) < ord(Head(b))

RECURSIVE insert(_, _)
insert(sortedSeq, v) ==
    IF sortedSeq = <<>> THEN <<v>>
    ELSE IF lt(v.s, Head(sortedSeq).s) THEN <<v>> \o sortedSeq
    ELSE <<Head(sortedSeq)>> \o insert(Tail(sortedSeq), v)

RECURSIVE sort_strs(_)
sort_strs(values) ==
    IF values = <<>> THEN <<>>
    ELSE insert(sort_strs(SubSeq(values, 1, Len(values) - 1)), values[Len(values)])

\* sorted(list): comparing None with a str raises TypeError
sorted(values) ==
    IF Len(values) <= 1 THEN Return(values)
    ELSE IF \E i \in DOMAIN values : ~isstr(values[i]) THEN Raise("TypeError")
    ELSE Return(sort_strs(values))

\* st.selectbox: the chosen option, the first option when the choice is not offered
selectbox(options, choice) ==
    IF \E i \in DOMAIN options : options[i] = choice THEN choice ELSE options[1]

\* Series == scalar, element-wise: a null on either side compares unequal
pd_eq(a, b) == a # None /\ b # None /\ a = b

\* df[mask]
select_rows(table, Keep(_)) == SelectSeq(table, Keep)

apply_filters_no_wildcard(table, candidate, question) ==
    \* faulty variant: the question filter is applied to "All" as to any other question
    LET ByName(r) == r["fullName"] = candidate
        ByQuestion(r) == pd_eq(r["question"], question)
        by_candidate == IF candidate # Str(All) THEN select_rows(table, ByName) ELSE table
    IN select_rows(by_candidate, ByQuestion)

\* lines 126-133
apply_filters(table, candidate, question) ==
    LET ByName(r) == r["fullName"] = candidate
        ByQuestion(r) == pd_eq(r["question"], question)
        by_candidate == IF candidate # Str(All) THEN select_rows(table, ByName) ELSE table
    IN IF question # Str(All) THEN select_rows(by_candidate, ByQuestion) ELSE by_candidate

derived_question_last(table, candidate) ==
    \* faulty variant: iloc[-1] instead of iloc[0]
    LET ByName(r) == r["fullName"] = candidate
        rows == select_rows(table, ByName)
    IN rows[Len(rows)]["question"]

\* line 116: df[df['fullName'] == selected_candidate]['question'].iloc[0]
derived_question(table, candidate) ==
    LET ByName(r) == r["fullName"] = candidate
    IN select_rows(table, ByName)[1]["question"]

---------------------------------------------------------------------------
(* Averages: exact fractions, NaN for the mean of nothing.                 *)

RECURSIVE gcd(_, _)
gcd(a, b) == IF b = 0 THEN a ELSE gcd(b, a % b)

NaN == [n |-> 0, d |-> 0]
Frac(n, d) == LET g == gcd(IF n < 0 THEN -n ELSE n, d) IN [n |-> n \div g, d |-> d \div g]
isnan(x) == x.d = 0

\* a cell as a float: None becomes NaN
to_float(v) == IF v.t = "num" THEN Frac(v.n, 1) ELSE NaN

RECURSIVE total(_)
total(xs) ==
    IF xs = <<>> THEN Frac(0, 1)
    ELSE LET rest == total(Tail(xs))
         IN Frac(Head(xs).n * rest.d + rest.n * Head(xs).d, Head(xs).d * rest.d)

mean_zero_filled(xs) ==
    \* faulty variant: nulls count as zero and an empty mean is zero
    LET ys == [i \in DOMAIN xs |-> IF isnan(xs[i]) THEN Frac(0, 1) ELSE xs[i]]
        sum == total(ys)
    IN IF xs = <<>> THEN Frac(0, 1) ELSE Frac(sum.n, sum.d * Len(xs))

\* Series.mean(): skipna, NaN when nothing is left
mean(xs) ==
    LET NotNaN(x) == ~isnan(x)
        ys == SelectSeq(xs, NotNaN)
        sum == total(ys)
    IN IF ys = <<>> THEN NaN ELSE Frac(sum.n, sum.d * Len(ys))

categories ==
    [Visual |-> <<"attire_score", "background_score", "video_quality_score",
                  "appearance_score", "eye_contact_score">>,
     Audio |-> <<"delivery_score", "pronunciation_score", "accent_score">>,
     Content |-> <<"irrelevant_responses_score", "filler_words_score", "pauses_score",
                   "grammar_score", "structure_score">>,
     Irregularities |-> <<"language_score", "video_irregularities_score",
                          "ai_cheating_score">>]

frame_mean_of_rows(table, metrics) ==
    \* faulty variant: mean(axis=1).mean(), the mean of the row means
    mean([i \in DOMAIN table |->
            mean([k \in DOMAIN metrics |-> to_float(table[i][metrics[k]])])])

\* line 159: df_filtered[metrics].mean().mean(): DataFrame.mean() reduces each
\* column (axis 0), Series.mean() then reduces the column means
frame_mean(table, metrics) ==
    mean([k \in DOMAIN metrics |->
            mean([i \in DOMAIN table |-> to_float(table[i][metrics[k]])])])

---------------------------------------------------------------------------
(* The video tab: lines 228-252.                                           *)

\* f"{value}"
format(v) == IF v = None THEN NoneText ELSE v.s

\* "prefix" + value inside the except clause
info_line(prefix, v) == IF isstr(v) THEN Return(Str(prefix \o v.s)) ELSE Raise("TypeError")

\* try: st.video(source) except: st.warning(...); st.info(prefix + value)
play(source, prefix, value, video_raises) ==
    IF ~video_raises THEN [shown |-> "video", source |-> source, info |-> None, exc |-> "none"]
    ELSE LET line == info_line(prefix, value)
         IN [shown |-> "warning", source |-> source,
             info |-> IF line.exc = "none" THEN line.records ELSE None,
             exc |-> line.exc]

video_tab(dataset, table, candidate, question, video_raises) ==
    IF candidate # Str(All) /\ question # Str(All)
    THEN LET Keep(r) == pd_eq(r["question"], question)
             video_info == select_rows(table, Keep)
         IN IF video_info = <<>> THEN [NoView EXCEPT !.shown = "nothing"]
            ELSE IF dataset = "HKU"
            THEN play(video_info[1]["presignedURL"], VideoUrlPrefix,
                      video_info[1]["presignedURL"], video_raises)
            ELSE play(Str(format(video_info[1]["video_base_path"]) \o <<"/">>
                          \o format(video_info[1]["fileName"])),
                      FileNamePrefix, video_info[1]["fileName"], video_raises)
    ELSE [NoView EXCEPT !.shown = "prompt"]

---------------------------------------------------------------------------
(* One execution of the script.                                            *)

\* v is evaluated once and handed to F, as an assignment to a local name is
With(v, F(_)) == CHOOSE r \in {F(x) : x \in {v}} : TRUE

Stopped(result, e) ==
    [loaded |-> result, status |-> e, selected_candidate |-> Unset,
     selected_question |-> Unset, candidate_names |-> <<>>, question_options |-> <<>>,
     df |-> <<>>, df_filtered |-> <<>>, avg_scores |-> <<>>, tab4 |-> NoView]

\* lines 126-252: the filters, the radar chart's averages and the video tab
main_panel(dataset, result, table, names, options, candidate, question, video_raises) ==
    With(apply_filters(table, candidate, question), LAMBDA filtered :
    With(video_tab(dataset, filtered, candidate, question, video_raises), LAMBDA video :
        [loaded |-> result,
         status |-> IF video.exc = "none" THEN "ok" ELSE video.exc,
         selected_candidate |-> candidate,
         selected_question |-> question,
         candidate_names |-> names,
         question_options |-> options,
         df |-> table,
         df_filtered |-> filtered,
         avg_scores |-> [c \in DOMAIN categories |-> frame_mean(filtered, categories[c])],
         tab4 |-> video]))

\* lines 113-124: the question is derived (HKU, one candidate) or selected
question_selector(dataset, result, table, names, candidate, question_choice, video_raises) ==
    IF dataset = "HKU" /\ candidate # Str(All)
    THEN main_panel(dataset, result, table, names, <<>>, candidate,
                    derived_question(table, candidate), video_raises)
    ELSE With(sorted(unique(column(table, "question"))), LAMBDA questions :
         IF questions.exc # "none"
         THEN [Stopped(result, questions.exc) EXCEPT
                  !.df = table, !.candidate_names = names, !.selected_candidate = candidate]
         ELSE With(<<Str(All)>> \o questions.records, LAMBDA options :
              main_panel(dataset, result, table, names, options, candidate,
                         selectbox(options, question_choice), video_raises)))

\* lines 104-111: the fullName column and the candidate selector
candidate_selector(dataset, result, candidate_choice, question_choice, video_raises) ==
    With(with_fullName(result.records), LAMBDA table :
    IF table.exc # "none" THEN Stopped(result, table.exc)
    ELSE With(<<Str(All)>> \o sorted(unique(column(table.records, "fullName"))).records,
              LAMBDA names :
              With(selectbox(names, candidate_choice), LAMBDA candidate :
                   question_selector(dataset, result, table.records, names, candidate,
                                     question_choice, video_raises))))

\* the whole script, lines 95-252
script(dataset, candidate_choice, question_choice, video_raises) ==
    With(load_data(dataset, files[dataset]), LAMBDA result :
    IF result.exc # "none" THEN Stopped(result, result.exc)
    ELSE candidate_selector(dataset, result, candidate_choice, question_choice,
                            video_raises))

Show(dataset, run) ==
    /\ selected_dataset' = dataset
    /\ loaded' = run.loaded
    /\ status' = run.status
    /\ selected_candidate' = run.selected_candidate
    /\ selected_question' = run.selected_question
    /\ candidate_names' = run.candidate_names
    /\ question_options' = run.question_options
    /\ df' = run.df
    /\ df_filtered' = run.df_filtered
    /\ avg_scores' = run.avg_scores
    /\ tab4' = run.tab4
    /\ UNCHANGED files

---------------------------------------------------------------------------
(* The dashboard: files with numeric or null scores, and the user's        *)
(* selections.                                                             *)

IdAB == Identity(Str(<<"A">>), Str(<<"B">>))
IdC == Identity(Str(<<"C">>), None)
IdB == Identity(None, Str(<<"B">>))

\* candidates of mongo_interview_analysis_grouped_10_5_processed.json
BakerCandidates ==
    {Dict(IdAB @@ ("videos" :> List(<<v1, v2>>))),
     Dict(IdAB @@ ("videos" :> List(<<v3>>))),
     Dict(IdC @@ ("videos" :> List(<<v2>>))),
     Dict(IdB @@ ("videos" :> List(<<v1>>)))}

\* candidates of hku_videos_info.json
HkuCandidates ==
    {Dict(IdAB @@ ("question" :> Q1) @@ ("localPath" :> PathDV) @@ ("presignedURL" :> Url)
          @@ ("analysis" :> an_full)),
     Dict(IdAB @@ ("question" :> None) @@ ("presignedURL" :> None) @@ ("analysis" :> an_part)),
     Dict(IdC @@ ("question" :> Q2) @@ ("localPath" :> PathDV)),
     Dict(IdB @@ ("question" :> Q1) @@ ("presignedURL" :> None) @@ ("analysis" :> None))}

BakerDocuments == {List(l) : l \in SeqsUpTo(BakerCandidates, MaxCandidates)}
HkuDocuments == {List(l) : l \in SeqsUpTo(HkuCandidates, MaxCandidates)}

BakerReference == List(<<Dict(IdAB @@ ("videos" :> List(<<v1, v2>>)))>>)
HkuReference == List(<<Dict(IdAB @@ ("question" :> None))>>)

DashboardFiles ==
    {("Baker McKenzie" :> b) @@ ("HKU" :> HkuReference) : b \in BakerDocuments}
    \cup {("Baker McKenzie" :> BakerReference) @@ ("HKU" :> h) : h \in HkuDocuments}

\* the first execution: the radio at index 0, both selectors at "All"
Init ==
    /\ files \in DashboardFiles
    /\ LET run == script("Baker McKenzie", Str(All), Str(All), FALSE)
       IN /\ selected_dataset = "Baker McKenzie"
          /\ loaded = run.loaded
          /\ status = run.status
          /\ selected_candidate = run.selected_candidate
          /\ selected_question = run.selected_question
          /\ candidate_names = run.candidate_names
          /\ question_options = run.question_options
          /\ df = run.df
          /\ df_filtered = run.df_filtered
          /\ avg_scores = run.avg_scores
          /\ tab4 = run.tab4

Offered(options, v) == \E i \in DOMAIN options : options[i] = v

\* The radio changes.  The selectors keep their value when the new options
\* still offer it, or start again at "All".
SelectDataset(dataset) ==
    /\ dataset # selected_dataset
    /\ \E candidate_choice \in {Str(All), selected_candidate},
          question_choice \in {Str(All), selected_question},
          video_raises \in BOOLEAN :
          Show(dataset, script(dataset, candidate_choice, question_choice, video_raises))

\* The candidate selector changes; the question selector keeps its value.
SelectCandidate(candidate) ==
    /\ Offered(candidate_names, candidate)
    /\ candidate # selected_candidate
    /\ \E video_raises \in BOOLEAN :
          Show(selected_dataset,
               script(selected_dataset, candidate, selected_question, video_raises))

\* The question selector changes.
SelectQuestion(question) ==
    /\ Offered(question_options, question)
    /\ question # selected_question
    /\ \E video_raises \in BOOLEAN :
          Show(selected_dataset,
               script(selected_dataset, selected_candidate, question, video_raises))

Next ==
    \/ \E dataset \in Datasets : SelectDataset(dataset)
    \/ \E i \in DOMAIN candidate_names : SelectCandidate(candidate_names[i])
    \/ \E i \in DOMAIN question_options : SelectQuestion(question_options[i])

Spec == Init /\ [][Next]_vars

---------------------------------------------------------------------------
(* Claims about load_data, checked under SpecLoad.                         *)

BaseColumns ==
    {"firstName", "lastName", "email", "question", "fileName", "video_base_path",
     "presignedURL"}

Source == files[selected_dataset]
Called == loaded.exc # "pending"

ArrayOfObjects(doc) == doc.t = "list" /\ \A i \in DOMAIN doc.l : isdict(doc.l[i])

\* the videos a candidate of a well-shaped document embeds
Embedded(dataset, candidate) ==
    IF dataset = "Baker McKenzie"
    THEN (IF "videos" \in DOMAIN candidate.d THEN candidate.d["videos"].l ELSE <<>>)
    ELSE <<candidate>>

\* a list of candidate mappings; in the Baker McKenzie shape 'videos' is absent
\* or a list of mappings
DocumentList(dataset, doc) ==
    /\ ArrayOfObjects(doc)
    /\ dataset = "Baker McKenzie" =>
         \A i \in DOMAIN doc.l :
            "videos" \in DOMAIN doc.l[i].d =>
               /\ doc.l[i].d["videos"].t = "list"
               /\ \A j \in DOMAIN doc.l[i].d["videos"].l :
                     isdict(doc.l[i].d["videos"].l[j])

\* number of records the candidates before the i-th contribute
RECURSIVE Offset(_, _, _)
Offset(dataset, doc, i) ==
    IF i = 1 THEN 0
    ELSE Offset(dataset, doc, i - 1) + Len(Embedded(dataset, doc.l[i - 1]))

\* C3: load_data fails, and returns no table, whenever the document is not a
\* JSON array of objects.
C3_LoadErrorOnMalformed ==
    (Called /\ ~ArrayOfObjects(Source)) => loaded.exc \notin {"none", "pending"}

\* The record at position Offset(i) + j is the one of candidate i and its j-th
\* video, identity and video fields alike.
PairRecords(dataset, doc, records) ==
    /\ Len(records) = Offset(dataset, doc, Len(doc.l) + 1)
    /\ \A i \in DOMAIN doc.l :
          \A j \in DOMAIN Embedded(dataset, doc.l[i]) :
             LET r == records[Offset(dataset, doc, i) + j]
                 v == Embedded(dataset, doc.l[i])[j]
             IN /\ \A c \in {"firstName", "lastName", "email"} :
                      r[c] = get(doc.l[i], c, None)
                /\ \A c \in {"question", "presignedURL"} : r[c] = get(v, c, None)
                /\ dataset = "Baker McKenzie" => r["fileName"] = get(v, "fileName", None)

\* C8: for every source document list, flattening outputs exactly one record
\* per (candidate, video) pair, in traversal order: k records for a Baker
\* McKenzie candidate with k videos (0 when 'videos' is absent), one record for
\* every HKU candidate.
C8_OneRecordPerPair ==
    (Called /\ DocumentList(selected_dataset, Source)) =>
        /\ loaded.exc = "none"
        /\ PairRecords(selected_dataset, Source, loaded.records)

\* The lookup as the claim words it: null when a key of the path is absent or a
\* value on the way is not a mapping, the stored value otherwise.
Lookup(analysis, path) ==
    IF /\ isdict(analysis)
       /\ path[1] \in DOMAIN analysis.d
       /\ isdict(analysis.d[path[1]])
       /\ path[2] \in DOMAIN analysis.d[path[1]].d
       /\ isdict(analysis.d[path[1]].d[path[2]])
       /\ path[3] \in DOMAIN analysis.d[path[1]].d[path[2]].d
    THEN analysis.d[path[1]].d[path[2]].d[path[3]]
    ELSE None

MetricLookups(dataset, doc, records) ==
    \A i \in DOMAIN doc.l :
       \A j \in DOMAIN Embedded(dataset, doc.l[i]) :
          LET r == records[Offset(dataset, doc, i) + j]
              analysis == get(Embedded(dataset, doc.l[i])[j], "analysis", EmptyDict)
          IN \A c \in DOMAIN r \ BaseColumns :
                r[c] = Lookup(analysis, metric_paths[c])

\* no field of a candidate keeps the record from being built
Buildable(dataset, doc) ==
    /\ DocumentList(dataset, doc)
    /\ dataset = "HKU" =>
         \A i \in DOMAIN doc.l : isstr(get(doc.l[i], "localPath", Str(<<>>)))

\* C4 (as amended): for every one of the 16 metric paths and every analysis
\* value, the record's column holds null when a key of the path is absent or a
\* value on the way is not a mapping, and the stored value otherwise; no
\* analysis value stops the construction of the record.
C4_NestedLookup ==
    (Called /\ Buildable(selected_dataset, Source)) =>
        /\ loaded.exc = "none"
        /\ Len(loaded.records) = Offset(selected_dataset, Source, Len(Source.l) + 1)
        /\ \A k \in DOMAIN loaded.records :
              Cardinality(DOMAIN loaded.records[k] \ BaseColumns) = 16
        /\ MetricLookups(selected_dataset, Source, loaded.records)

\* C4 as stated: the same with 18 metric paths.
C4_EighteenPaths ==
    (Called /\ Buildable(selected_dataset, Source)) =>
        /\ loaded.exc = "none"
        /\ \A k \in DOMAIN loaded.records :
              Cardinality(DOMAIN loaded.records[k] \ BaseColumns) = 18
        /\ MetricLookups(selected_dataset, Source, loaded.records)

\* C4, witness: a record was built whose stored attire score was returned as it is, while
\* the path of its background score ends at an absent key
C4_Witness ==
    /\ Called /\ Buildable(selected_dataset, Source) /\ loaded.exc = "none"
    /\ \E k \in DOMAIN loaded.records :
          /\ loaded.records[k]["attire_score"] = Str(<<"7">>)
          /\ loaded.records[k]["background_score"] = None

---------------------------------------------------------------------------
(* Claims about the dashboard, checked under Spec.                         *)

\* the execution reached the filters of lines 126-133
Filtered == selected_question # Unset

Specific == selected_candidate \notin {Str(All), Unset}

Range(q) == {q[i] : i \in DOMAIN q}

RECURSIVE SumOver(_, _)
SumOver(f, S) ==
    IF S = {} THEN 0
    ELSE LET x == CHOOSE y \in S : TRUE IN f[x] + SumOver(f, S \ {x})

RECURSIVE ProdOver(_, _)
ProdOver(f, S) ==
    IF S = {} THEN 1
    ELSE LET x == CHOOSE y \in S : TRUE IN f[x] * ProdOver(f, S \ {x})

\* avg is the mean, over the groups G, of sum[g] / count[g]; NaN without groups
IsMeanOfMeans(avg, G, sum, count) ==
    IF G = {} THEN avg = NaN
    ELSE /\ avg.d > 0
         /\ avg.n * Cardinality(G) * ProdOver(count, G)
              = avg.d * SumOver([g \in G |-> sum[g] * ProdOver(count, G \ {g})], G)

Scored(table, i, m) == table[i][m].t = "num"
Value(table, i, m) == IF Scored(table, i, m) THEN table[i][m].n ELSE 0

\* the mean over the metrics of each metric's mean over the records
MeanOfMetricMeans(avg, table, metrics) ==
    LET G == {m \in metrics : \E i \in DOMAIN table : Scored(table, i, m)}
    IN IsMeanOfMeans(avg, G,
          [m \in G |-> SumOver([i \in DOMAIN table |-> Value(table, i, m)], DOMAIN table)],
          [m \in G |-> Cardinality({i \in DOMAIN table : Scored(table, i, m)})])

\* the mean over the records of each record's mean over the metrics
MeanOfRowMeans(avg, table, metrics) ==
    LET G == {i \in DOMAIN table : \E m \in metrics : Scored(table, i, m)}
    IN IsMeanOfMeans(avg, G,
          [i \in G |-> SumOver([m \in metrics |-> Value(table, i, m)], metrics)],
          [i \in G |-> Cardinality({m \in metrics : Scored(table, i, m)})])

\* C1 as stated: the category average of the radar chart is the mean over the
\* records of each record's mean over the category's metrics, nulls ignored.
C1_MeanOfRowMeans ==
    Filtered =>
        \A c \in DOMAIN categories :
            MeanOfRowMeans(avg_scores[c], df_filtered, Range(categories[c]))

\* C1 (as amended): the category average is the mean over the category's
\* metrics of each metric's mean over the filtered records, nulls ignored in
\* both means.
C1_MeanOfMetricMeans ==
    Filtered =>
        \A c \in DOMAIN categories :
            MeanOfMetricMeans(avg_scores[c], df_filtered, Range(categories[c]))

\* C1, witness: the filtered records differ in their null pattern over a category's
\* metrics and the two orders of averaging give different numbers
C1_Witness ==
    /\ Filtered
    /\ \E c \in DOMAIN categories :
          /\ ~isnan(avg_scores[c])
          /\ MeanOfMetricMeans(avg_scores[c], df_filtered, Range(categories[c]))
          /\ ~MeanOfRowMeans(avg_scores[c], df_filtered, Range(categories[c]))

\* C2: when playing the video of the selected record fails, the failure is
\* caught and shown as a warning with the attempted source; the view does not
\* fail.
C2_VideoFailureIsSoft ==
    tab4.shown = "warning" => (status = "ok" /\ tab4.exc = "none" /\ tab4.info # None)

\* the first record of the table whose display name is the candidate's
FirstOf(table, candidate) ==
    CHOOSE i \in DOMAIN table :
        /\ table[i]["fullName"] = candidate
        /\ \A j \in 1..(i - 1) : table[j]["fullName"] # candidate

\* C5: in the HKU dataset with a specific candidate selected, no question
\* selector is offered and the selected question is the question of the first
\* record of the table whose display name is the selected candidate.
C5_DerivedQuestion ==
    (selected_dataset = "HKU" /\ Specific) =>
        /\ question_options = <<>>
        /\ \E i \in DOMAIN df : df[i]["fullName"] = selected_candidate
        /\ selected_question = df[FirstOf(df, selected_candidate)]["question"]

\* C5, witness: two HKU records share the selected display name, their questions differ,
\* and the first one's question "Q1" was derived
C5_Witness ==
    /\ selected_dataset = "HKU" /\ Specific
    /\ selected_candidate = Str(<<"A", " ", "B">>)
    /\ selected_question = Q1
    /\ \E i, j \in DOMAIN df :
          /\ df[i]["fullName"] = selected_candidate
          /\ df[j]["fullName"] = selected_candidate
          /\ df[i]["question"] # df[j]["question"]

\* C6: a category whose metrics are all null in the filtered subset, the empty
\* subset included, has the average NaN, not zero.
C6_AllNullIsNaN ==
    Filtered =>
        \A c \in DOMAIN categories :
            (\A i \in DOMAIN df_filtered :
                \A m \in Range(categories[c]) : df_filtered[i][m] = None)
            => (avg_scores[c] = NaN /\ avg_scores[c] # Frac(0, 1))

\* C6, witness: filters that match nothing, an empty subset of a table that has records
C6_Witness ==
    /\ Filtered /\ status = "ok"
    /\ df # <<>> /\ df_filtered = <<>>
    /\ \A c \in DOMAIN categories : avg_scores[c] = NaN

\* C7: with candidate "All" and question "All" the filtered table is the full
\* flattened table of the dataset: same records, same order, field for field.
C7_UnfilteredIsFullTable ==
    (Filtered /\ selected_candidate = Str(All) /\ selected_question = Str(All)) =>
        /\ Len(df_filtered) = Len(loaded.records)
        /\ \A i \in DOMAIN loaded.records :
              \A c \in DOMAIN loaded.records[i] : df_filtered[i][c] = loaded.records[i][c]

\* C7, witness: the HKU table of two records, unfiltered
C7_Witness ==
    /\ Filtered /\ selected_candidate = Str(All) /\ selected_question = Str(All)
    /\ selected_dataset = "HKU"
    /\ Len(loaded.records) >= 2
    /\ df_filtered = df

\* C9: the filtered view is exactly the records of the selected dataset's
\* table whose display name equals the selected candidate (or the candidate is
\* "All") and whose question equals the selected question (or the question is
\* "All").
C9_FilteredView ==
    Filtered =>
        LET Matches(r) ==
                /\ selected_candidate = Str(All) \/ r["fullName"] = selected_candidate
                /\ selected_question = Str(All) \/ r["question"] = selected_question
        IN /\ loaded = load_data(selected_dataset, files[selected_dataset])
           /\ Len(df) = Len(loaded.records)
           /\ df_filtered = SelectSeq(df, Matches)

\* C10: in the HKU dataset a specific candidate always has a non-empty
\* filtered view.
C10_HkuCandidateHasData ==
    (selected_dataset = "HKU" /\ Specific /\ Filtered) => df_filtered # <<>>

===========================================================================
